---- MODULE Spec2Model ----
(***************************************************************************)
(* A model of the smartaction-planner quote service: the per-site scraper  *)
(* (scrape_site), the price extractor, the best-match selector and the     *)
(* two fan-out engines (run_quote_collect and the streaming handler).      *)
(*                                                                         *)
(* Conventions.  Option<T> is a sequence of length at most one: None is    *)
(* <<>> and Some(x) is <<x>>.  Prices are integers in cents (3.0 is 300).  *)
(* A URL is a tuple: <<"search", site, query>> is the search URL that      *)
(* site_url builds, <<"result", site>> a result URL captured in a body.    *)
(***************************************************************************)
EXTENDS Integers, Sequences, FiniteSets, Bags, TLC

VARIABLES
    \* best_from_matches applied to an input
    sel_in, sel_out, sel_done,
    \* extract_price_from_body applied to a site and a body
    ext_in, ext_out, ext_done

VARIABLES
    \* one call of scrape_site at a time, against the shared cache store
    pc,             \* where the call is suspended
    cur,            \* its arguments: site, query, ttl
    attempt,        \* the loop index
    last_message, final_status,
    final_body,     \* the body the loop broke out with
    gets, sleeps,   \* retailer GETs sent and backoff sleeps begun by the call
    lookups, upserts, \* cache GETs and POSTs sent by the call
    elapsed,        \* milliseconds since the call's start
    result,         \* the SiteMatch built, while upsert_cache is awaited
    ret,            \* what the call returned
    observed,       \* history: what each attempt of the call ended in
    store,          \* the price_cache table: key -> row
    now,            \* the wall clock, in seconds
    env,            \* CACHE_TTL_SECONDS and whether the store is configured
    calls, advances

VARIABLES
    \* one run of a fan-out engine: run_quote_collect or the streaming producer
    mode,           \* "collect" or "stream"
    items,          \* the queries of request.items
    site_plan,
    epc,            \* where the engine (the producer task) is
    item_index,     \* the item the loop is at, from 0
    next_task,      \* the site_plan position the task iterator is at, from 1
    in_flight,      \* the futures held by buffer_unordered (a bag)
    permits,        \* the permits the semaphore has left
    matches,        \* the matches of the item so far
    pending,        \* stream: the match whose frame is being sent
    item_results,   \* collect: the ItemResults built
    chan,           \* stream: the frames in the channel
    rx_open,        \* stream: whether the consumer still holds the receiver
    sent,           \* history: the frames enqueued, in order
    received,       \* history: the frames the consumer received, in order
    collected,      \* history: per item, the matches collected or sent so far
    panicked        \* history: the task that panicked, if one did

selVars == <<sel_in, sel_out, sel_done, ext_in, ext_out, ext_done>>
engineVars == <<mode, items, site_plan, epc, item_index, next_task, in_flight, permits,
                matches, pending, item_results, chan, rx_open, sent, received,
                collected, panicked>>
callVars == <<pc, cur, attempt, last_message, final_status, final_body, gets, sleeps, lookups,
              upserts, elapsed, result, ret, observed>>
scrapeVars == <<callVars, store, now, env, calls, advances>>
vars == <<selVars, scrapeVars, engineVars>>
outsideScrape == <<selVars, engineVars>>

(***************************************************************************)
(* Bounds of the model.                                                    *)
(***************************************************************************)
MaxMatches == 4
MaxDollars == 3
MaxItems == 2
MaxPlanLen == 3
MaxTasks == 4
MaxCalls == 2
MaxAdvances == 1
FanExtra == 2
WordBits == 8

(***************************************************************************)
(* Program constants.                                                      *)
(***************************************************************************)
PRICE_MIN == 300
PRICE_MAX == 5000000
AMAZON_MIN == 500
JSON_LD_TAKE == 80
AMAZON_TAKE == 20
DOLLAR_TAKE == 60
CTX_WINDOW == 24
SEMAPHORE_PERMITS == 20
BUFFER_UNORDERED == 20
CHANNEL_CAPACITY == 64
MAX_ATTEMPTS == 2
SLEEP_TRANSPORT == 250
SLEEP_STATUS == 300
SLEEP_BODY == 200
SLEEP_CHALLENGE == 300

None == <<>>
Some(x) == <<x>>
IsSome(o) == o # <<>>
Unwrap(o) == o[1]

Min(a, b) == IF a < b THEN a ELSE b
Max(a, b) == IF a > b THEN a ELSE b

(***************************************************************************)
(* Site ids.  String::cmp on these ids is the lexicographic order          *)
(* amazon < ebay < zoro, kept here as a rank.                              *)
(***************************************************************************)
SiteIds == {"amazon", "ebay", "zoro"}
SiteRank == [s \in SiteIds |-> CASE s = "amazon" -> 1 [] s = "ebay" -> 2 [] OTHER -> 3]
SiteLE(a, b) == SiteRank[a] <= SiteRank[b]

Queries == <<"q1", "q2", "q3", "q4">>

site_url(site, query) == <<"search", site, query>>

(***************************************************************************)
(* Sorting as slice::sort_by does it: stable, ascending.                   *)
(***************************************************************************)
RECURSIVE InsertPrice(_, _)
InsertPrice(x, s) ==
    IF s = <<>> THEN <<x>>
    ELSE IF s[Len(s)] <= x THEN Append(s, x)
    ELSE Append(InsertPrice(x, SubSeq(s, 1, Len(s) - 1)), s[Len(s)])

RECURSIVE SortPrices(_)
SortPrices(s) ==
    IF s = <<>> THEN <<>>
    ELSE InsertPrice(s[Len(s)], SortPrices(SubSeq(s, 1, Len(s) - 1)))

Take(s, n) == SubSeq(s, 1, Min(n, Len(s)))
\* a range check that forgets the upper end
InRangeNoUpper(p, lo, hi) == lo <= p
InRange(p, lo, hi) == lo <= p /\ p <= hi
\* v[v.len() / 2] of a non-empty sorted vector
MedianOf(sorted) == sorted[(Len(sorted) \div 2) + 1]

(***************************************************************************)
(* HTML bodies.  A body is what the extractor's regular expressions see:   *)
(*   title     the content of the first <title>, if any                    *)
(*   challenge whether the lowercased body holds a bot-challenge phrase    *)
(*   json_ld   the numbers matched by the "price" pattern, in cents        *)
(*   whole     the a-price-whole captures, in dollars                      *)
(*   frac      the a-price-fraction captures                               *)
(*   dollars   the matches of the generic dollar pattern: byte offsets     *)
(*             start/end in the body, value in cents, whether the raw      *)
(*             number has a decimal point, and the phrases found in the    *)
(*             24-byte window around it                                    *)
(*   lower_len the byte length of body.to_lowercase()                      *)
(*   lower_mid byte offsets of the lowercased body inside a character      *)
(*   links     the sites whose result-URL pattern occurs in the body       *)
(***************************************************************************)
Dollar(s, e, c, d, x) == [start |-> s, end |-> e, cents |-> c, has_dot |-> d, ctx |-> x]

EmptyBody ==
    [title |-> None, challenge |-> FALSE, json_ld |-> <<>>, whole |-> <<>>, frac |-> <<>>,
     dollars |-> <<>>, lower_len |-> 40, lower_mid |-> {}, links |-> {}]

\* "$5.00 ... $199.99 ... $205.00 ... $210.00 ... $220.00"
MedianTrimBody ==
    [EmptyBody EXCEPT !.title = Some("results"), !.lower_len = 400,
        !.dollars = << Dollar(100, 105, 500, TRUE, {}), Dollar(150, 157, 19999, TRUE, {}),
                       Dollar(200, 207, 20500, TRUE, {}), Dollar(250, 257, 21000, TRUE, {}),
                       Dollar(300, 307, 22000, TRUE, {}) >>,
        !.links = {"ebay"}]

\* "$45 /mo financing" beside "$899.00", and a "$4.99 shipping"
MonthlyBody ==
    [EmptyBody EXCEPT !.title = Some("deal"), !.lower_len = 300,
        !.dollars = << Dollar(60, 63, 4500, FALSE, {"/mo", "financing"}),
                       Dollar(120, 125, 499, TRUE, {"shipping"}),
                       Dollar(200, 207, 89900, TRUE, {}) >>]

\* "price":"129.95" and an unrelated "$5"
JsonLdBody ==
    [EmptyBody EXCEPT !.title = Some("product"), !.lower_len = 200,
        !.json_ld = <<12995>>,
        !.dollars = << Dollar(90, 92, 500, FALSE, {}) >>,
        !.links = {"amazon", "ebay"}]

\* only out-of-range prices: "price": 1.00, "$2.99", "$50,000.01"
OutOfRangeBody ==
    [EmptyBody EXCEPT !.lower_len = 200,
        !.json_ld = <<100, 5000001>>,
        !.dollars = << Dollar(50, 55, 299, TRUE, {}), Dollar(100, 110, 5000001, TRUE, {}) >>]

\* an Amazon result page: a-price-whole 19 and 24, fractions 99 and 50,
\* and a whole "3" below the Amazon floor
AmazonBody ==
    [EmptyBody EXCEPT !.title = Some("Amazon.com"), !.lower_len = 500,
        !.whole = <<19, 24, 3>>, !.frac = <<99, 50>>,
        !.dollars = << Dollar(300, 306, 1999, TRUE, {}) >>,
        !.links = {"amazon"}]

\* "Pardon Our Interruption"
ChallengeBody ==
    [EmptyBody EXCEPT !.title = Some("Pardon Our Interruption"), !.challenge = TRUE]

\* twenty KELVIN SIGN characters (3 bytes each, lowercased to the 1-byte "k")
\* followed by "$100.00": the body has 67 bytes, its lowercase 27
KelvinBody ==
    [EmptyBody EXCEPT !.lower_len = 27,
        !.dollars = << Dollar(60, 67, 10000, TRUE, {}) >>]

\* "$100.00" after one LATIN CAPITAL LETTER I WITH DOT ABOVE (2 bytes,
\* lowercased to 3) and accented text: offset 30 of the lowercase is inside
\* a character
DottedIBody ==
    [EmptyBody EXCEPT !.lower_len = 120, !.lower_mid = {30, 32, 34},
        !.dollars = << Dollar(54, 61, 10000, TRUE, {}) >>]

Bodies == {EmptyBody, MedianTrimBody, MonthlyBody, JsonLdBody, OutOfRangeBody,
           AmazonBody, ChallengeBody, KelvinBody, DottedIBody}

likely_bot_challenge(body) == body.challenge

extract_title(body) == body.title

extract_result_url(site, body) ==
    IF site \in {"amazon", "ebay"} /\ site \in body.links
    THEN Some(<<"result", site>>)
    ELSE None

extract_price_from_json_ld(body) ==
    LET prices == SelectSeq(Take(body.json_ld, JSON_LD_TAKE),
                            LAMBDA p : InRange(p, PRICE_MIN, PRICE_MAX))
    IN  IF prices = <<>> THEN None ELSE Some(MedianOf(SortPrices(prices)))

extract_amazon_price(body) ==
    LET wholes == Take(body.whole, AMAZON_TAKE)
        bases  == SelectSeq([i \in 1..Len(wholes) |-> wholes[i] * 100],
                            LAMBDA p : InRange(p, AMAZON_MIN, PRICE_MAX))
        n      == Min(Min(Len(body.whole), Len(body.frac)), AMAZON_TAKE)
        joined == SelectSeq([i \in 1..n |-> body.whole[i] * 100 + body.frac[i]],
                            LAMBDA p : InRange(p, AMAZON_MIN, PRICE_MAX))
        candidates == bases \o joined
    IN  IF candidates = <<>> THEN None ELSE Some(MedianOf(SortPrices(candidates)))

(***************************************************************************)
(* &lower[ctx_start..ctx_end] panics when the start exceeds the end or an  *)
(* index is not on a character boundary of the lowercased body.  The       *)
(* offsets are those of the match in the original body.                    *)
(***************************************************************************)
CtxStart(m) == Max(m.start - CTX_WINDOW, 0)
CtxEnd(body, m) == Min(m.end + CTX_WINDOW, body.lower_len)
SlicePanics(body, m) ==
    \/ CtxStart(m) > CtxEnd(body, m)
    \/ CtxStart(m) \in body.lower_mid
    \/ CtxEnd(body, m) \in body.lower_mid

Recurring == {"/mo", "month", "monthly", "financing", "per wk", "weekly"}

KeepDollar(m) ==
    /\ m.ctx \cap Recurring = {}
    /\ ~("shipping" \in m.ctx /\ m.cents < 2000)
    /\ ~(m.cents < 1000 /\ ~m.has_dot)

\* a pick that is the median itself
GenericPickMedian(sorted) == MedianOf(sorted)

\* the smallest candidate >= 0.35 * median, else the median
GenericPick(sorted) ==
    LET median == MedianOf(sorted)
        ok == {i \in 1..Len(sorted) : sorted[i] * 100 >= median * 35}
    IN  IF ok = {} THEN median ELSE sorted[CHOOSE i \in ok : \A j \in ok : i <= j]

extract_price_generic(body) ==
    LET inrange == SelectSeq(Take(body.dollars, DOLLAR_TAKE),
                             LAMBDA m : InRange(m.cents, PRICE_MIN, PRICE_MAX))
        kept    == SelectSeq(inrange, KeepDollar)
        candidates == [i \in 1..Len(kept) |-> kept[i].cents]
    IN  IF \E i \in 1..Len(inrange) : SlicePanics(body, inrange[i])
        THEN [panicked |-> TRUE, price |-> None]
        ELSE [panicked |-> FALSE,
              price |-> IF candidates = <<>> THEN None
                        ELSE Some(GenericPick(SortPrices(candidates)))]

\* an order that tries the generic dollar strategy first
extract_price_generic_first(site, body) ==
    IF extract_price_generic(body).panicked \/ IsSome(extract_price_generic(body).price)
    THEN extract_price_generic(body)
    ELSE [panicked |-> FALSE, price |-> extract_price_from_json_ld(body)]

extract_price_from_body(site, body) ==
    IF IsSome(extract_price_from_json_ld(body))
    THEN [panicked |-> FALSE, price |-> extract_price_from_json_ld(body)]
    ELSE IF site \in {"amazon", "amazon_business"} /\ IsSome(extract_amazon_price(body))
    THEN [panicked |-> FALSE, price |-> extract_amazon_price(body)]
    ELSE extract_price_generic(body)

(***************************************************************************)
(* SiteMatch and the values scrape_site builds.                            *)
(***************************************************************************)
SiteMatch(site, title, price, url, status, message, latency) ==
    [site |-> site, title |-> title, price |-> price, currency |-> Some("USD"),
     url |-> url, status |-> status, message |-> message, latency_ms |-> Some(latency)]

Statuses == {"ok", "not_found", "cached", "blocked", "unsupported_js", "error"}

(***************************************************************************)
(* best_from_matches                                                       *)
(***************************************************************************)
\* a filter that does not look at the status
IsValidAnyStatus(entry) == IsSome(entry.price) /\ IsSome(entry.url)

IsValid(entry) == entry.status = "ok" /\ IsSome(entry.price) /\ IsSome(entry.url)

ValidOf(ms) ==
    LET v == SelectSeq(ms, IsValid)
    IN  [i \in 1..Len(v) |-> [site |-> v[i].site, price |-> Unwrap(v[i].price),
                              url |-> Unwrap(v[i].url)]]

\* price >= median * 0.4
AboveFloor(price, median) == price * 10 >= median * 4

FilteredOf(valid) ==
    LET prices == SortPrices([i \in 1..Len(valid) |-> valid[i].price])
    IN  IF Len(prices) >= 3
        THEN LET median == MedianOf(prices)
                 kept == SelectSeq(valid, LAMBDA e : AboveFloor(e.price, median))
             IN  IF kept = <<>> THEN valid ELSE kept
        ELSE valid

\* a min_by that returns the last of several equally minimum elements
RECURSIVE MinByLast(_, _)
MinByLast(best, rest) ==
    IF rest = <<>> THEN best
    ELSE MinByLast(IF best.price >= rest[1].price THEN rest[1] ELSE best, Tail(rest))

\* Iterator::min_by: of several equally minimum elements the first is returned
RECURSIVE MinBy(_, _)
MinBy(best, rest) ==
    IF rest = <<>> THEN best
    ELSE MinBy(IF best.price > rest[1].price THEN rest[1] ELSE best, Tail(rest))

best_from_matches(ms) ==
    LET valid == ValidOf(ms)
        filtered == FilteredOf(valid)
    IN  IF valid = <<>> THEN None
        ELSE Some(MinBy(filtered[1], Tail(filtered)))

(***************************************************************************)
(* The cache store.  A row holds what its payload deserializes to (None    *)
(* when it is no SiteMatch) and what its updated_at parses to (None when   *)
(* it is no RFC-3339 time).  u64 and i64 are scaled to 8 bits: WORD stands *)
(* for 2^64.                                                               *)
(***************************************************************************)
WORD == 2 ^ WordBits
ttl_as_i64(ttl) == IF ttl >= WORD \div 2 THEN ttl - WORD ELSE ttl

\* no caching, one minute, and a ttl in the upper half of the u64 range
Ttls == {0, 60, WORD - 56}
ScrapeSites == {"amazon", "ebay"}
ScrapeBodies == {EmptyBody, OutOfRangeBody, MedianTrimBody, ChallengeBody, KelvinBody}
HttpStatuses == {200, 403, 429, 503}
Blocking == {403, 429, 503}
HttpStatusMsg(s) ==
    CASE s = 403 -> "http_status_403" [] s = 429 -> "http_status_429"
      [] s = 503 -> "http_status_503" [] OTHER -> "http_status_200"

CacheKey(site, query) == <<site, query>>
CacheKeys == {CacheKey(s, Queries[1]) : s \in ScrapeSites}
NoRow == <<>>
Row(payload, at) == <<[payload |-> Some(payload), updated_at |-> Some(at)]>>

\* a row another deployment wrote: an ok snapshot whose price is 1.00
SeedPayload ==
    SiteMatch("amazon", Some("old"), Some(100), Some(<<"result", "amazon">>), "ok", None, 7)
EmptyStore == [k \in CacheKeys |-> NoRow]
SeededStore == [EmptyStore EXCEPT ![CacheKey("amazon", Queries[1])] = Row(SeedPayload, 0)]

ttl_seconds(cache_ttl, e) == IF IsSome(cache_ttl) THEN Unwrap(cache_ttl) ELSE e.cache_ttl_seconds

\* maybe_get_cache once the store has answered with the rows of the key
CacheLookup(rows, ttl, clock) ==
    IF rows = NoRow THEN None
    ELSE IF rows[1].updated_at = None THEN None
    ELSE IF clock - Unwrap(rows[1].updated_at) > ttl_as_i64(ttl) THEN None
    ELSE rows[1].payload

\* a variant gated by the ttl of the request
UpsertSendsByRequest(e) == cur.ttl # 0 /\ e.configured

\* whether upsert_cache gets as far as sending its POST
UpsertSends(e) == e.cache_ttl_seconds # 0 /\ e.configured

\* a variant that skips the test of ttl
LookupSendsAlways(ttl, e) == e.configured

\* whether maybe_get_cache gets as far as sending its GET
LookupSends(ttl, e) == ttl # 0 /\ e.configured

\* the parts of the state a specification does not use stay as they are here
ExtIdle ==
    /\ ext_in = [site |-> "amazon", body |-> EmptyBody]
    /\ ext_out = None /\ ext_done = FALSE

SelIdle == sel_in = <<>> /\ sel_out = None /\ sel_done = FALSE /\ ExtIdle

EngineIdle ==
    /\ mode = "collect" /\ items = <<>> /\ site_plan = <<>> /\ epc = "finished"
    /\ item_index = 0 /\ next_task = 1 /\ in_flight = EmptyBag
    /\ permits = SEMAPHORE_PERMITS /\ matches = <<>> /\ pending = None
    /\ item_results = <<>> /\ chan = <<>> /\ rx_open = FALSE /\ sent = <<>>
    /\ received = <<>> /\ collected = <<>> /\ panicked = None

ScrapeIdle ==
    /\ pc = "idle" /\ cur = [site |-> "amazon", query |-> Queries[1], ttl |-> 0]
    /\ attempt = 0 /\ last_message = None /\ final_status = None /\ final_body = None
    /\ gets = 0 /\ sleeps = 0 /\ lookups = 0 /\ upserts = 0 /\ elapsed = 0
    /\ result = None /\ ret = None /\ observed = <<>>
    /\ store = EmptyStore /\ now = 0
    /\ env = [cache_ttl_seconds |-> 0, configured |-> FALSE]
    /\ calls = 0 /\ advances = 0

InitScrape ==
    /\ pc = "idle" /\ cur = [site |-> "amazon", query |-> Queries[1], ttl |-> 0]
    /\ attempt = 0 /\ last_message = None /\ final_status = None /\ final_body = None
    /\ gets = 0 /\ sleeps = 0 /\ lookups = 0 /\ upserts = 0 /\ elapsed = 0
    /\ result = None /\ ret = None /\ observed = <<>>
    /\ store \in {EmptyStore, SeededStore}
    /\ now = 0
    /\ env \in [cache_ttl_seconds : {0, 60}, configured : BOOLEAN]
    /\ calls = 0 /\ advances = 0
    /\ SelIdle
    /\ EngineIdle

SearchUrl == Some(site_url(cur.site, cur.query))

\* scrape_site is entered: the cache is consulted
Call(s, q, cache_ttl) ==
    /\ pc \in {"idle", "returned", "panicked"}
    /\ calls < MaxCalls
    /\ calls' = calls + 1
    /\ cur' = [site |-> s, query |-> q, ttl |-> ttl_seconds(cache_ttl, env)]
    /\ attempt' = 0 /\ last_message' = None /\ final_status' = None /\ final_body' = None
    /\ gets' = 0 /\ sleeps' = 0 /\ upserts' = 0 /\ elapsed' = 0
    /\ result' = None /\ ret' = None /\ observed' = <<>>
    /\ IF LookupSends(cur'.ttl, env)
       THEN pc' = "cache_wait" /\ lookups' = 1
       ELSE pc' = "attempt" /\ lookups' = 0
    /\ UNCHANGED <<store, now, env, advances, outsideScrape>>

\* what the store can answer a lookup with: a transport failure, a body that
\* is no JSON array, the rows of the key, or a row whose updated_at is no
\* RFC-3339 text or whose payload is no SiteMatch
CacheAnswers == {"transport", "not_array", "rows", "bad_updated_at", "bad_payload"}

RowsOf(answer, key, clock) ==
    CASE answer = "rows" -> store[key]
      [] answer = "bad_updated_at" -> <<[payload |-> Some(SeedPayload), updated_at |-> None]>>
      [] answer = "bad_payload" -> <<[payload |-> None, updated_at |-> Some(clock)]>>
      [] OTHER -> NoRow

\* SiteMatch { status: "cached", latency_ms: elapsed, ..cached }
CachedCopyStale(cached, ms) == [cached EXCEPT !.status = "cached"]
CachedCopy(cached, ms) == [cached EXCEPT !.status = "cached", !.latency_ms = Some(ms)]

\* the cache GET ends with this answer
CacheAnswer(answer) ==
    /\ pc = "cache_wait"
    /\ LET rows == RowsOf(answer, CacheKey(cur.site, cur.query), now)
           cached == CacheLookup(rows, cur.ttl, now)
       IN  IF IsSome(cached)
           THEN /\ pc' = "returned"
                /\ ret' = Some(CachedCopy(Unwrap(cached), elapsed + 1))
           ELSE /\ pc' = "attempt"
                /\ ret' = None
    /\ elapsed' = elapsed + 1
    /\ UNCHANGED <<observed, final_body, cur, attempt, last_message, final_status, gets, sleeps, lookups,
                   upserts, result, store, now, env, calls, advances, outsideScrape>>

\* the head of the loop body: the client is built and the GET is sent
StartAttempt ==
    /\ pc = "attempt"
    /\ attempt < MAX_ATTEMPTS
    /\ pc' = "get_wait"
    /\ gets' = gets + 1
    /\ UNCHANGED <<observed, final_body, cur, attempt, last_message, final_status, sleeps, lookups, upserts,
                   elapsed, result, ret, store, now, env, calls, advances, outsideScrape>>

\* reqwest::Client::builder().build() fails
ClientInitFailed ==
    /\ pc = "attempt"
    /\ attempt < MAX_ATTEMPTS
    /\ pc' = "returned"
    /\ ret' = Some(SiteMatch(cur.site, None, None, SearchUrl, "error",
                             Some("client_init_failed"), elapsed))
    /\ observed' = Append(observed, "client_init")
    /\ UNCHANGED <<final_body, cur, attempt, last_message, final_status, gets, sleeps, lookups,
                   upserts, elapsed, result, store, now, env, calls, advances, outsideScrape>>

\* variants of the backoff: one that also writes to the cache, one that
\* sleeps twice
BackoffWrites(ms) ==
    /\ pc' = "sleep"
    /\ sleeps' = sleeps + 1
    /\ elapsed' = elapsed + 1 + ms
    /\ upserts' = upserts + 1
    /\ UNCHANGED <<result, ret>>

BackoffTwice(ms) ==
    /\ pc' = "sleep"
    /\ sleeps' = sleeps + 2
    /\ elapsed' = elapsed + 1 + ms + ms
    /\ UNCHANGED <<result, ret, upserts>>

\* if attempt == 0 { sleep(ms); continue }
Backoff(ms) ==
    /\ pc' = "sleep"
    /\ sleeps' = sleeps + 1
    /\ elapsed' = elapsed + 1 + ms
    /\ UNCHANGED <<result, ret, upserts>>

\* what follows the loop, with the values the loop left
AfterLoop(fbody, fstatus, lmessage) ==
    /\ elapsed' = elapsed + 1
    /\ UNCHANGED sleeps
    /\ IF IsSome(fbody)
       THEN LET body == Unwrap(fbody)
                title == extract_title(body)
                found == extract_price_from_body(cur.site, body)
                result_url == extract_result_url(cur.site, body)
                built == SiteMatch(cur.site, title, found.price,
                                   IF IsSome(result_url) THEN result_url ELSE SearchUrl,
                                   IF IsSome(found.price) THEN "ok" ELSE "not_found",
                                   None, elapsed')
            IN  IF found.panicked
                THEN pc' = "panicked" /\ UNCHANGED <<result, ret, upserts>>
                ELSE IF built.status \in {"ok", "not_found"} /\ UpsertSends(env)
                THEN pc' = "upsert_wait" /\ result' = Some(built) /\ upserts' = upserts + 1
                     /\ UNCHANGED ret
                ELSE pc' = "returned" /\ ret' = Some(built) /\ UNCHANGED <<result, upserts>>
       ELSE /\ pc' = "returned"
            /\ UNCHANGED <<result, upserts>>
            /\ IF (IsSome(fstatus) /\ Unwrap(fstatus) \in Blocking)
                  \/ lmessage = Some("challenge_detected")
               THEN ret' = Some(SiteMatch(cur.site, None, None, SearchUrl, "blocked",
                                          IF IsSome(lmessage) THEN lmessage
                                          ELSE Some(HttpStatusMsg(Unwrap(fstatus))),
                                          elapsed'))
               ELSE ret' = Some(SiteMatch(cur.site, None, None, SearchUrl, "error",
                                          IF IsSome(lmessage) THEN lmessage
                                          ELSE Some("request_failed"),
                                          elapsed'))

\* the GET fails in transport, or its deadline passes
GetFails(message) ==
    /\ pc = "get_wait"
    /\ last_message' = Some(message)
    /\ IF attempt = 0
       THEN Backoff(SLEEP_TRANSPORT)
       ELSE AfterLoop(None, final_status, last_message')
    /\ observed' = Append(observed, message)
    /\ UNCHANGED <<final_body, cur, attempt, final_status, gets, lookups, store, now, env, calls,
                   advances, outsideScrape>>

\* the GET returns a response with this status
GetStatus(status) ==
    /\ pc = "get_wait"
    /\ final_status' = Some(status)
    /\ IF status \in Blocking
       THEN /\ last_message' = Some(HttpStatusMsg(status))
            /\ IF attempt = 0
               THEN Backoff(SLEEP_STATUS)
               ELSE AfterLoop(None, final_status', last_message')
       ELSE /\ pc' = "body_wait"
            /\ elapsed' = elapsed + 1
            /\ UNCHANGED <<last_message, sleeps, result, ret, upserts>>
    /\ observed' = IF status \in Blocking THEN Append(observed, "blocking_status")
                   ELSE observed
    /\ UNCHANGED <<final_body, cur, attempt, gets, lookups, store, now, env, calls, advances, outsideScrape>>

\* read_body_limited fails
BodyFails ==
    /\ pc = "body_wait"
    /\ last_message' = Some("body_error")
    /\ IF attempt = 0
       THEN Backoff(SLEEP_BODY)
       ELSE AfterLoop(None, final_status, last_message')
    /\ observed' = Append(observed, "body_error")
    /\ UNCHANGED <<final_body, cur, attempt, final_status, gets, lookups, store, now, env, calls,
                   advances, outsideScrape>>

\* the SiteMatch of a challenge on the last attempt
UnsupportedJsPriced(ms) ==
    SiteMatch(cur.site, None, Some(PRICE_MIN), None, "unsupported_js",
              Some("site requires browser execution or anti-bot challenge"), ms)
UnsupportedJs(ms) ==
    SiteMatch(cur.site, None, None, SearchUrl, "unsupported_js",
              Some("site requires browser execution or anti-bot challenge"), ms)

\* read_body_limited returns this body
BodyRead(body) ==
    /\ pc = "body_wait"
    /\ IF likely_bot_challenge(body)
       THEN /\ last_message' = Some("challenge_detected")
            /\ IF attempt = 0
               THEN Backoff(SLEEP_CHALLENGE)
               ELSE /\ pc' = "returned"
                    /\ elapsed' = elapsed + 1
                    /\ ret' = Some(UnsupportedJs(elapsed'))
                    /\ UNCHANGED <<sleeps, result, upserts>>
       ELSE /\ UNCHANGED last_message
            /\ AfterLoop(Some(body), final_status, last_message)
    /\ observed' = Append(observed, IF likely_bot_challenge(body) THEN "challenge"
                                     ELSE "body")
    /\ final_body' = IF likely_bot_challenge(body) THEN final_body ELSE Some(body)
    /\ UNCHANGED <<cur, attempt, final_status, gets, lookups, store, now, env, calls,
                   advances, outsideScrape>>

\* the backoff sleep ends: continue with the next attempt
SleepDone ==
    /\ pc = "sleep"
    /\ attempt' = attempt + 1
    /\ pc' = "attempt"
    /\ UNCHANGED <<observed, final_body, cur, last_message, final_status, gets, sleeps, lookups, upserts,
                   elapsed, result, ret, store, now, env, calls, advances, outsideScrape>>

\* a variant in which a failed write turns the result into an error
UpsertAnswerFatal(written) ==
    /\ pc = "upsert_wait"
    /\ store' = IF written
                THEN [store EXCEPT ![CacheKey(cur.site, cur.query)] = Row(Unwrap(result), now)]
                ELSE store
    /\ pc' = "returned"
    /\ ret' = IF written THEN result
              ELSE Some([Unwrap(result) EXCEPT !.status = "error", !.price = None])
    /\ UNCHANGED <<observed, final_body, cur, attempt, last_message, final_status, gets,
                   sleeps, lookups, upserts, elapsed, result, now, env, calls, advances,
                   outsideScrape>>

\* upsert_cache(...).await ends, the row written or not; scrape_site returns
UpsertAnswer(written) ==
    /\ pc = "upsert_wait"
    /\ store' = IF written
                THEN [store EXCEPT ![CacheKey(cur.site, cur.query)] = Row(Unwrap(result), now)]
                ELSE store
    /\ pc' = "returned"
    /\ ret' = result
    /\ UNCHANGED <<observed, final_body, cur, attempt, last_message, final_status, gets, sleeps, lookups,
                   upserts, elapsed, result, now, env, calls, advances, outsideScrape>>

\* time passes between calls
Advance ==
    /\ pc \in {"idle", "returned", "panicked"}
    /\ advances < MaxAdvances
    /\ advances' = advances + 1
    /\ now' = now + 100
    /\ UNCHANGED <<callVars, store, env, calls, outsideScrape>>

NextScrape ==
    \/ \E s \in ScrapeSites, o \in {None} \cup {Some(x) : x \in Ttls} : Call(s, Queries[1], o)
    \/ \E a \in CacheAnswers : CacheAnswer(a)
    \/ StartAttempt
    \/ ClientInitFailed
    \/ \E m \in {"connect_error", "timeout"} : GetFails(m)
    \/ \E st \in HttpStatuses : GetStatus(st)
    \/ BodyFails
    \/ \E b \in ScrapeBodies : BodyRead(b)
    \/ SleepDone
    \/ \E w \in BOOLEAN : UpsertAnswer(w)
    \/ Advance

SpecScrape == InitScrape /\ [][NextScrape]_vars

(***************************************************************************)
(* SpecBest: best_from_matches applied to bounded inputs.                  *)
(***************************************************************************)
OkMatch(site, cents) ==
    SiteMatch(site, None, Some(cents), Some(site_url(site, "q1")), "ok", None, 0)

SelShapes ==
    {OkMatch(s, c) : s \in {"amazon", "ebay"}, c \in {1000, 18000, 20000}}
    \cup {[OkMatch("zoro", 1000) EXCEPT !.url = None],
          [OkMatch("zoro", 1000) EXCEPT !.price = None],
          [OkMatch("zoro", 1000) EXCEPT !.status = "cached"],
          SiteMatch("zoro", None, None, Some(site_url("zoro", "q1")), "error",
                    Some("timeout"), 0)}

SeqsUpTo(S, n) == UNION {[1..k -> S] : k \in 0..n}

\* section 8, scenario 6: prices {10, 180, 200, 210, 220}
SelectorOutlier ==
    << OkMatch("zoro", 21000), OkMatch("amazon", 1000), OkMatch("ebay", 22000),
       OkMatch("amazon", 18000), OkMatch("ebay", 20000) >>

SelInputs == SeqsUpTo(SelShapes, MaxMatches) \cup {SelectorOutlier}

InitBest ==
    /\ sel_in \in SelInputs
    /\ sel_out = None
    /\ sel_done = FALSE
    /\ ExtIdle
    /\ ScrapeIdle
    /\ EngineIdle

ApplyBest ==
    /\ ~sel_done
    /\ sel_out' = best_from_matches(sel_in)
    /\ sel_done' = TRUE
    /\ UNCHANGED <<sel_in, ext_in, ext_out, ext_done, scrapeVars, engineVars>>

NextBest == ApplyBest

SpecBest == InitBest /\ [][NextBest]_vars

(***************************************************************************)
(* SpecExtract: extract_price_from_body applied to one site and one body.  *)
(* The bodies are the named ones and every body made of up to MaxDollars   *)
(* matches of the dollar pattern, with or without a JSON-LD price and an   *)
(* Amazon price block.                                                     *)
(***************************************************************************)
ExtractSites == {"amazon", "amazon_business", "ebay"}

\* "$5.00", "$5", "$69.99", "$70.00", "$200.00", "$45 /mo"
DollarKinds ==
    { [cents |-> 500, has_dot |-> TRUE, ctx |-> {}],
      [cents |-> 500, has_dot |-> FALSE, ctx |-> {}],
      [cents |-> 6999, has_dot |-> TRUE, ctx |-> {}],
      [cents |-> 7000, has_dot |-> TRUE, ctx |-> {}],
      [cents |-> 20000, has_dot |-> TRUE, ctx |-> {}],
      [cents |-> 4500, has_dot |-> FALSE, ctx |-> {"/mo"}] }

\* a body of plain ASCII whose dollar matches lie 100 bytes apart
GenBody(kinds, json_ld, whole, frac) ==
    [EmptyBody EXCEPT
        !.lower_len = 100 * (Len(kinds) + 1),
        !.json_ld = json_ld, !.whole = whole, !.frac = frac,
        !.dollars = [i \in 1..Len(kinds) |->
                        Dollar(100 * i, 100 * i + 7, kinds[i].cents, kinds[i].has_dot,
                               kinds[i].ctx)]]

\* a JSON-LD price and an Amazon price block in a body whose dollar match
\* makes the generic strategy panic
JsonLdKelvinBody ==
    [KelvinBody EXCEPT !.json_ld = <<12995>>, !.whole = <<19>>, !.frac = <<99>>]

ExtBodies ==
    Bodies \cup {JsonLdKelvinBody}
    \cup { GenBody(k, j, w[1], w[2]) :
             k \in SeqsUpTo(DollarKinds, MaxDollars),
             j \in {<<>>, <<12995>>, <<100>>},
             w \in {<< <<>>, <<>> >>, << <<19>>, <<99>> >>} }

InitExtract ==
    /\ ext_in \in [site : ExtractSites, body : ExtBodies]
    /\ ext_out = None
    /\ ext_done = FALSE
    /\ sel_in = <<>> /\ sel_out = None /\ sel_done = FALSE
    /\ ScrapeIdle
    /\ EngineIdle

ApplyExtract ==
    /\ ~ext_done
    /\ ext_out' = Some(extract_price_from_body(ext_in.site, ext_in.body))
    /\ ext_done' = TRUE
    /\ UNCHANGED <<ext_in, sel_in, sel_out, sel_done, scrapeVars, engineVars>>

NextExtract == ApplyExtract

SpecExtract == InitExtract /\ [][NextExtract]_vars

\* the candidates that survive the filters of the generic strategy, sorted
Survivors(body) ==
    LET inrange == SelectSeq(Take(body.dollars, DOLLAR_TAKE),
                             LAMBDA m : PRICE_MIN <= m.cents /\ m.cents <= PRICE_MAX)
        kept == SelectSeq(inrange, KeepDollar)
    IN  SortPrices([i \in 1..Len(kept) |-> kept[i].cents])

\* the generic strategy decides the result for this input
GenericDecides(in) ==
    /\ extract_price_from_json_ld(in.body) = None
    /\ in.site \notin {"amazon", "amazon_business"} \/ extract_amazon_price(in.body) = None
    /\ ~extract_price_generic(in.body).panicked

(***************************************************************************)
(* C22: generic price strategy.  With the surviving candidates sorted      *)
(* ascending and median = the element at index floor(n/2), the result is   *)
(* the smallest candidate >= 0.35 * median, and the median if none         *)
(* qualifies; {5.00, 199.99, 205.00, 210.00, 220.00} gives 199.99.         *)
(***************************************************************************)
C22_GenericPick ==
    (ext_done /\ GenericDecides(ext_in)) =>
        LET s == Survivors(ext_in.body)
            n == Len(s)
            median == s[(n \div 2) + 1]
            qualify == {i \in 1..n : s[i] * 100 >= median * 35}
        IN  /\ Unwrap(ext_out).panicked = FALSE
            /\ n = 0 => Unwrap(ext_out).price = None
            /\ (n > 0 /\ qualify = {}) => Unwrap(ext_out).price = Some(median)
            /\ (n > 0 /\ qualify # {}) =>
                  \E i \in qualify :
                     /\ \A j \in qualify : s[i] <= s[j]
                     /\ Unwrap(ext_out).price = Some(s[i])
            /\ ext_in.body = MedianTrimBody => Unwrap(ext_out).price = Some(19999)

\* the accessory price 5.00 is passed over: 199.99 is returned, the median
\* being 205.00
C22_Witness ==
    /\ ext_done
    /\ ext_in = [site |-> "ebay", body |-> MedianTrimBody]
    /\ Survivors(ext_in.body) = <<500, 19999, 20500, 21000, 22000>>
    /\ Unwrap(ext_out).price = Some(19999)

(***************************************************************************)
(* C23: the strategies are tried in the order JSON-LD, Amazon DOM,         *)
(* generic, and the first that yields a price decides: a JSON-LD price is  *)
(* returned without the other two being run (a body on which the generic   *)
(* strategy would panic still gives the JSON-LD price); the Amazon DOM     *)
(* strategy counts only for amazon and amazon_business; the generic one    *)
(* only when the earlier ones yielded nothing.  "price":"129.95" beside an *)
(* unrelated $5 gives 129.95.                                              *)
(***************************************************************************)
C23_StrategyOrder ==
    ext_done =>
        LET body == ext_in.body
            json == extract_price_from_json_ld(body)
            amazon == extract_amazon_price(body)
            out == Unwrap(ext_out)
        IN  /\ IsSome(json) => out = [panicked |-> FALSE, price |-> json]
            /\ (json = None /\ ext_in.site \in {"amazon", "amazon_business"}
                   /\ IsSome(amazon)) => out = [panicked |-> FALSE, price |-> amazon]
            /\ (json = None /\ (ext_in.site = "ebay" \/ amazon = None)) =>
                  out = extract_price_generic(body)
            /\ body = JsonLdBody => out.price = Some(12995)

\* amazon_business, a body with a JSON-LD price, an Amazon price block and
\* a dollar match on which the generic strategy panics: the JSON-LD price
C23_Witness ==
    /\ ext_done
    /\ ext_in = [site |-> "amazon_business", body |-> JsonLdKelvinBody]
    /\ extract_price_generic(ext_in.body).panicked
    /\ IsSome(extract_amazon_price(ext_in.body))
    /\ ext_out = Some([panicked |-> FALSE, price |-> Some(12995)])

(***************************************************************************)
(* C8: best_from_matches returns nothing iff no match is ok with a price   *)
(* and a url; otherwise it returns the minimum-price entry of the filtered *)
(* valid set (the whole valid set below 3 entries, the entries with        *)
(* price >= 0.4 * median from 3 on), the first such entry in input order;  *)
(* prices {10,180,200,210,220} give 180.                                   *)
(***************************************************************************)
C8_Valid == {i \in 1..Len(sel_in) :
                sel_in[i].status = "ok" /\ sel_in[i].price # None /\ sel_in[i].url # None}
C8_Median ==
    LET sorted == SortPrices([k \in 1..Cardinality(C8_Valid) |->
                    Unwrap(sel_in[CHOOSE i \in C8_Valid :
                        Cardinality({j \in C8_Valid : j < i}) = k - 1].price)])
    IN  sorted[(Cardinality(C8_Valid) \div 2) + 1]
C8_Filtered ==
    IF Cardinality(C8_Valid) < 3 THEN C8_Valid
    ELSE {i \in C8_Valid : Unwrap(sel_in[i].price) * 10 >= C8_Median * 4}
Returned == pc = "returned" /\ IsSome(ret)
Ret == Unwrap(ret)

(***************************************************************************)
(* C2: every SiteMatch scrape_site returns with a status other than        *)
(* "cached" has a price if and only if its status is "ok", and an "ok"     *)
(* match has a url and a price within [3.0, 50000.0].                      *)
(***************************************************************************)
C2_PriceIffOk ==
    (Returned /\ Ret.status # "cached") =>
        /\ IsSome(Ret.price) <=> (Ret.status = "ok")
        /\ Ret.status = "ok" =>
              /\ IsSome(Ret.url)
              /\ 300 <= Unwrap(Ret.price) /\ Unwrap(Ret.price) <= 5000000

\* an ok match extracted from a body that also holds an out-of-range price
C2_Witness ==
    /\ Returned
    /\ Ret.status = "ok"
    /\ Ret.price = Some(19999)
    /\ observed = <<"body">>

(***************************************************************************)
(* C6: every call of scrape_site ends by returning exactly one SiteMatch   *)
(* whose status is one of the six, after at most 2 GET attempts and at     *)
(* most one backoff sleep, whatever the cache, the transport, the HTTP     *)
(* status, the body read and the body are.                                 *)
(***************************************************************************)
C6_AlwaysReturnsSiteMatch ==
    /\ pc \in {"idle", "cache_wait", "attempt", "get_wait", "body_wait", "sleep",
               "upsert_wait", "returned"}
    /\ pc = "returned" => IsSome(ret) /\ Ret.status \in Statuses
    /\ gets <= 2
    /\ sleeps <= 1

(***************************************************************************)
(* C9: scrape_site returns "blocked" only when the final attempt it        *)
(* performed observed 403, 429 or 503 (or a challenge); when the last      *)
(* observed condition is a transport error, a timeout or a body-read       *)
(* failure the returned status is "error", also after a 403/429/503 on     *)
(* attempt 0.                                                              *)
(***************************************************************************)
LastObserved == observed[Len(observed)]
C9_BlockedOnlyOnFinalAttempt ==
    (Returned /\ observed # <<>>) =>
        /\ Ret.status = "blocked" => LastObserved \in {"blocking_status", "challenge"}
        /\ LastObserved \in {"connect_error", "timeout", "body_error"} =>
              Ret.status = "error"

(***************************************************************************)
(* C10: the cache write is fire-and-forget: while the upsert request is    *)
(* outstanding, scrape_site has already handed its SiteMatch to the        *)
(* caller, so a store that never answers cannot hold the result back.      *)
(***************************************************************************)
C10_UpsertDoesNotDelayReturn ==
    pc = "upsert_wait" => IsSome(ret)

\* the row of the call's key, its payload and the time it was written
CurKey == CacheKey(cur.site, cur.query)
HasRow == store[CurKey] # NoRow
RowPayload == Unwrap(store[CurKey][1].payload)
RowAge == now - Unwrap(store[CurKey][1].updated_at)
SameSnapshot(a, m) ==
    /\ a.site = m.site /\ a.title = m.title /\ a.price = m.price
    /\ a.currency = m.currency /\ a.url = m.url /\ a.message = m.message

(***************************************************************************)
(* C11: cache round trip.  When the store holds the row that a put wrote   *)
(* for (site, query) with an ok or not_found match m, a scrape of the same *)
(* (site, query) with ttl > 0 whose lookup the store answers at most ttl   *)
(* seconds after the write returns m with status "cached" and the          *)
(* latency of this call; this for every ttl > 0.                           *)
(***************************************************************************)
C11_CacheRoundTrip ==
    [][(/\ CacheAnswer("rows")
        /\ HasRow
        /\ RowPayload.status \in {"ok", "not_found"}
        /\ cur.ttl > 0
        /\ RowAge <= cur.ttl)
       => (/\ pc' = "returned"
           /\ IsSome(ret')
           /\ SameSnapshot(Unwrap(ret'), RowPayload)
           /\ Unwrap(ret').status = "cached"
           /\ Unwrap(ret').latency_ms = Some(elapsed'))]_vars

(***************************************************************************)
(* C12: a call of scrape_site that returns blocked, unsupported_js, error  *)
(* or cached has sent no cache write; a write is sent at most once, and    *)
(* only for a match whose status is ok or not_found.                       *)
(***************************************************************************)
C12_UpsertOnlyForOkNotFound ==
    /\ (Returned /\ Ret.status \in {"blocked", "unsupported_js", "error", "cached"})
           => upserts = 0
    /\ pc = "upsert_wait" => Unwrap(result).status \in {"ok", "not_found"}
    /\ upserts <= 1

\* a call that could have written (the store is configured and
\* CACHE_TTL_SECONDS is set) ends blocked after its retry
C12_Witness ==
    /\ Returned
    /\ Ret.status = "blocked"
    /\ UpsertSends(env)
    /\ sleeps = 1
    /\ upserts = 0

\* whether this answer makes the lookup fail: the request fails, the body is
\* malformed, there is no row, or the row is older than ttl
LookupFails(a) == a # "rows" \/ ~HasRow \/ RowAge > cur.ttl

\* the call is at the head of the attempt loop with nothing done yet
EntersLoop ==
    /\ pc = "attempt" /\ attempt = 0 /\ gets = 0 /\ sleeps = 0 /\ upserts = 0
    /\ ret = None /\ last_message = None /\ final_status = None /\ final_body = None

\* what scrape_site builds from a final body when no cache is involved
Uncached(site, body) ==
    LET result_url == extract_result_url(site, body)
        price == extract_price_from_body(site, body).price
    IN  [site |-> site, title |-> extract_title(body), price |-> price,
         currency |-> Some("USD"),
         url |-> IF IsSome(result_url) THEN result_url ELSE Some(site_url(site, cur.query)),
         status |-> IF IsSome(price) THEN "ok" ELSE "not_found", message |-> None]
WithoutLatency(m) ==
    [site |-> m.site, title |-> m.title, price |-> m.price, currency |-> m.currency,
     url |-> m.url, status |-> m.status, message |-> m.message]

(***************************************************************************)
(* C13: cache failures never change the outcome.  A lookup that fails      *)
(* (request failure, malformed answer, no row, unparsable updated_at,      *)
(* stale row, undeserializable payload) leaves the call at the head of     *)
(* the attempt loop, as a call without configuration is; and whatever the  *)
(* upsert ends in, the SiteMatch returned is, up to latency_ms, the one    *)
(* built from the final body alone.                                        *)
(***************************************************************************)
C13_CacheFailuresHarmless ==
    [][/\ \A a \in CacheAnswers : (CacheAnswer(a) /\ LookupFails(a)) => EntersLoop'
       /\ (calls' = calls + 1 /\ ~env.configured) => (EntersLoop' /\ lookups' = 0)
       /\ (pc = "upsert_wait" /\ pc' # "upsert_wait") =>
             /\ pc' = "returned"
             /\ WithoutLatency(Unwrap(ret')) = Uncached(cur.site, Unwrap(final_body))]_vars

\* a call whose lookup found no row and whose write did not reach the store
\* has returned an ok match
C13_Witness ==
    /\ Returned
    /\ lookups = 1
    /\ upserts = 1
    /\ ~HasRow
    /\ Ret.status = "ok"

(***************************************************************************)
(* C16: a challenge body on attempt 0 is followed by one sleep and by      *)
(* attempt 1; a challenge body on both attempts makes scrape_site return   *)
(* "unsupported_js" with the search URL, no price and no cache write.      *)
(***************************************************************************)
C16_ChallengeRetryThenUnsupportedJs ==
    /\ (observed # <<>> /\ observed[1] = "challenge") =>
          /\ sleeps = 1
          /\ (pc = "sleep" /\ attempt = 0) \/ attempt = 1
    /\ (observed = <<"challenge">> /\ pc = "get_wait") => gets = 2
    /\ observed = <<"challenge", "challenge">> =>
          /\ Returned
          /\ Ret.status = "unsupported_js"
          /\ Ret.url = SearchUrl
          /\ Ret.price = None
          /\ gets = 2
          /\ upserts = 0

\* both attempts met a challenge, in a deployment that writes to the cache
C16_Witness ==
    /\ Returned
    /\ observed = <<"challenge", "challenge">>
    /\ UpsertSends(env)
    /\ Ret.status = "unsupported_js"

\* attempt 0 ended in a retryable condition and attempt 1 read a body that
\* is no challenge and holds a price
RetryThenPrice ==
    /\ Len(observed) = 2
    /\ observed[1] \in {"connect_error", "timeout", "blocking_status", "challenge"}
    /\ observed[2] = "body"
    /\ IsSome(final_body)
    /\ ~extract_price_from_body(cur.site, Unwrap(final_body)).panicked
    /\ IsSome(extract_price_from_body(cur.site, Unwrap(final_body)).price)

(***************************************************************************)
(* C17: retry success.  When attempt 0 ends in a transport error, a        *)
(* timeout, 403/429/503 or a challenge, and attempt 1 gets a non-blocking  *)
(* status and a body that is no challenge and holds a price, the call      *)
(* returns one SiteMatch with status "ok", after two GETs and exactly one  *)
(* backoff sleep.                                                          *)
(***************************************************************************)
C17_RetrySuccess ==
    RetryThenPrice =>
        /\ pc \in {"upsert_wait", "returned"}
        /\ sleeps = 1
        /\ gets = 2
        /\ IsSome(final_status) /\ Unwrap(final_status) \notin Blocking
        /\ pc = "upsert_wait" => Unwrap(result).status = "ok"
        /\ pc = "returned" => (IsSome(ret) /\ Ret.status = "ok" /\ IsSome(Ret.price))

\* 503, then 200 with a priced body: returned ok
C17_Witness ==
    /\ RetryThenPrice
    /\ observed[1] = "blocking_status"
    /\ Returned
    /\ Ret.status = "ok"

(***************************************************************************)
(* C18: a call whose ttl is 0 sends no cache lookup and never waits for    *)
(* one: it goes to the attempt loop, also when the store is configured     *)
(* and holds a row for the key, and it never returns "cached".             *)
(***************************************************************************)
C18_ZeroTtlNoLookup ==
    (calls > 0 /\ cur.ttl = 0) =>
        /\ lookups = 0
        /\ pc # "cache_wait"
        /\ Returned => Ret.status # "cached"

\* ttl 0 with the store configured and a row for the key: the call is
\* waiting for the retailer
C18_Witness ==
    /\ calls > 0
    /\ cur.ttl = 0
    /\ env.configured
    /\ HasRow
    /\ pc = "get_wait"

(***************************************************************************)
(* C19: a call that returns "cached" returns the stored payload with       *)
(* status "cached" and latency_ms = the time elapsed in the call, and has  *)
(* done nothing but the lookup: no GET to the retailer, no sleep, no       *)
(* attempt, no cache write.                                                *)
(***************************************************************************)
C19_CacheHitDoesNothingElse ==
    (Returned /\ Ret.status = "cached") =>
        /\ HasRow
        /\ SameSnapshot(Ret, RowPayload)
        /\ Ret.latency_ms = Some(elapsed)
        /\ lookups = 1
        /\ gets = 0 /\ sleeps = 0 /\ upserts = 0 /\ attempt = 0
        /\ observed = <<>> /\ final_body = None /\ result = None

\* the second call is served the row the first call wrote
C19_Witness ==
    /\ Returned
    /\ Ret.status = "cached"
    /\ calls = 2
    /\ RowPayload # SeedPayload

(***************************************************************************)
(* C20: cache freshness.  For every ttl > 0 and every stored updated_at,   *)
(* a lookup that the store answers with the row of the key returns the     *)
(* payload if and only if now - updated_at <= ttl; a ttl in the upper      *)
(* half of the unsigned range never makes a row stale.                     *)
(***************************************************************************)
C20_FreshIffAgeWithinTtl ==
    [][(CacheAnswer("rows") /\ HasRow /\ cur.ttl > 0)
       => ((pc' = "returned") <=> (RowAge <= cur.ttl))]_vars

\* the call has a final body and built an ok or not_found match from it
BuiltFromBody ==
    \/ pc = "upsert_wait"
    \/ Returned /\ Ret.status \in {"ok", "not_found"}

(***************************************************************************)
(* C21: with the store configured, the lookup is sent exactly when the     *)
(* ttl of the request is not 0, and the write after an ok or not_found     *)
(* scrape is sent exactly when CACHE_TTL_SECONDS is > 0, whatever the ttl  *)
(* of the request: ttl > 0 with CACHE_TTL_SECONDS unset or 0 looks up and  *)
(* never writes; ttl = 0 with CACHE_TTL_SECONDS > 0 does not look up and   *)
(* still writes.                                                           *)
(***************************************************************************)
C21_WriteGatedByEnv ==
    (calls > 0 /\ env.configured) =>
        /\ lookups = (IF cur.ttl # 0 THEN 1 ELSE 0)
        /\ env.cache_ttl_seconds = 0 => (upserts = 0 /\ pc # "upsert_wait")
        /\ BuiltFromBody => upserts = (IF env.cache_ttl_seconds > 0 THEN 1 ELSE 0)

\* a request with cache_ttl = 0 under CACHE_TTL_SECONDS = 60 did not look
\* up and wrote the row of its key
C21_Witness ==
    /\ Returned
    /\ cur.ttl = 0
    /\ env.cache_ttl_seconds = 60 /\ env.configured
    /\ lookups = 0
    /\ upserts = 1
    /\ HasRow /\ RowPayload = Ret

(***************************************************************************)
(* The fan-out engines.  A task is a future of the item's task iterator:   *)
(* it acquires a permit and then runs scrape_site.  The futures are polled *)
(* only by the engine, inside buffer_unordered's poll_next, which first    *)
(* fills its queue up to the limit and then polls the futures in it.       *)
(* A call of scrape_site is one step here: it ends in one of the outcomes  *)
(* below, or in a panic.                                                   *)
(***************************************************************************)
PlanSites == {"ebay", "amazon"}

Outcome(m) == [panicked |-> FALSE, match |-> Some(m)]
Panic == [panicked |-> TRUE, match |-> None]

OkPrice(site) == IF site = "amazon" THEN 1999 ELSE 2499

ScrapeOutcomes(site, query) ==
    { Outcome(SiteMatch(site, Some("t"), Some(OkPrice(site)), Some(<<"result", site>>),
                        "ok", None, 0)),
      Outcome(SiteMatch(site, Some("t"), Some(OkPrice(site)), Some(<<"result", site>>),
                        "cached", None, 0)),
      Outcome(SiteMatch(site, None, None, Some(site_url(site, query)), "error",
                        Some("timeout"), 0)),
      Panic }

\* a run whose scrapes all time out
TimeoutOutcomes(site, query) ==
    { Outcome(SiteMatch(site, None, None, Some(site_url(site, query)), "error",
                        Some("timeout"), 0)) }

Task(item, site, state) == [item |-> item, site |-> site, state |-> state]
InProgress == BagCardinality(in_flight)
Running == {t \in BagToSet(in_flight) : t.state = "running"}
Waiting == {t \in BagToSet(in_flight) : t.state = "waiting"}
RunningCount ==
    LET R == Running
        RECURSIVE Sum(_)
        Sum(S) == IF S = {} THEN 0
                  ELSE LET x == CHOOSE y \in S : TRUE
                       IN  CopiesIn(x, in_flight) + Sum(S \ {x})
    IN  Sum(R)

Query == items[item_index + 1]

Frame(type, index, match, best) ==
    [type |-> type, item_index |-> index, match |-> match, best |-> best]

\* matches.sort_by(|a, b| a.site.cmp(&b.site)): stable
RECURSIVE InsertBySite(_, _)
InsertBySite(x, s) ==
    IF s = <<>> THEN <<x>>
    ELSE IF SiteLE(s[Len(s)].site, x.site) THEN Append(s, x)
    ELSE Append(InsertBySite(x, SubSeq(s, 1, Len(s) - 1)), s[Len(s)])

RECURSIVE SortedBySite(_)
SortedBySite(s) ==
    IF s = <<>> THEN <<>>
    ELSE InsertBySite(s[Len(s)], SortedBySite(SubSeq(s, 1, Len(s) - 1)))

\* a sort that was left out
NotSorted(s) == s
SortMatches(s) == SortedBySite(s)

Requests ==
    { r \in [mode : {"collect", "stream"},
             n_items : 0..MaxItems,
             plan : SeqsUpTo(PlanSites, MaxPlanLen)] :
        r.n_items * Len(r.plan) <= MaxTasks }

EngineStart(r) ==
    /\ mode = r.mode
    /\ items = SubSeq(Queries, 1, r.n_items)
    /\ site_plan = r.plan
    /\ epc = IF r.mode = "stream" THEN "send_started"
             ELSE IF r.n_items = 0 THEN "finished" ELSE "run"
    /\ item_index = 0 /\ next_task = 1 /\ in_flight = EmptyBag
    /\ permits = SEMAPHORE_PERMITS /\ matches = <<>> /\ pending = None
    /\ item_results = <<>> /\ chan = <<>> /\ rx_open = (r.mode = "stream")
    /\ sent = <<>> /\ received = <<>>
    /\ collected = [i \in 1..r.n_items |-> 0]
    /\ panicked = None

Init ==
    /\ \E r \in Requests : EngineStart(r)
    /\ SelIdle
    /\ ScrapeIdle

\* a channel without a bound
CanSendUnbounded == TRUE

\* tx.send(frame).await can complete: there is room, or the receiver is gone
CanSend == Len(chan) < CHANNEL_CAPACITY \/ ~rx_open

Send(frame) ==
    /\ chan' = IF rx_open THEN Append(chan, frame) ELSE chan
    /\ sent' = IF rx_open THEN Append(sent, frame) ELSE sent

\* where the engine goes once item `index - 1` is finished
AfterItem(index) ==
    IF index < Len(items) THEN "run"
    ELSE IF mode = "stream" THEN "send_done" ELSE "finished"

\* the "started" frame
SendStarted ==
    /\ epc = "send_started"
    /\ CanSend
    /\ Send(Frame("started", 0, None, None))
    /\ epc' = AfterItem(0)
    /\ UNCHANGED <<mode, items, site_plan, item_index, next_task, in_flight, permits,
                   matches, pending, item_results, rx_open, received, collected, panicked,
                   selVars, scrapeVars>>

\* the task iterator of the item is exhausted and no future is left
ItemCompleteEarly == next_task > Len(site_plan)
ItemComplete == next_task > Len(site_plan) /\ in_flight = EmptyBag

\* a fan-out with neither the buffer limit nor a held permit
StartTaskUnbounded ==
    /\ epc = "run"
    /\ next_task <= Len(site_plan)
    /\ in_flight' = in_flight (+) SetToBag({Task(item_index, site_plan[next_task], "running")})
    /\ next_task' = next_task + 1
    /\ UNCHANGED <<mode, items, site_plan, epc, item_index, matches, pending, permits,
                   item_results, chan, rx_open, sent, received, collected, panicked,
                   selVars, scrapeVars>>

\* a fan-out limited by the semaphore alone
StartTaskUnbuffered ==
    /\ epc = "run"
    /\ next_task <= Len(site_plan)
    /\ IF permits > 0
       THEN /\ permits' = permits - 1
            /\ in_flight' = in_flight (+)
                  SetToBag({Task(item_index, site_plan[next_task], "running")})
       ELSE /\ permits' = permits
            /\ in_flight' = in_flight (+)
                  SetToBag({Task(item_index, site_plan[next_task], "waiting")})
    /\ next_task' = next_task + 1
    /\ UNCHANGED <<mode, items, site_plan, epc, item_index, matches, pending,
                   item_results, chan, rx_open, sent, received, collected, panicked,
                   selVars, scrapeVars>>

\* buffer_unordered takes the next future and polls it: the task acquires a
\* permit, or waits for one
StartTask ==
    /\ epc = "run"
    /\ next_task <= Len(site_plan)
    /\ InProgress < BUFFER_UNORDERED
    /\ IF permits > 0
       THEN /\ permits' = permits - 1
            /\ in_flight' = in_flight (+)
                  SetToBag({Task(item_index, site_plan[next_task], "running")})
       ELSE /\ permits' = permits
            /\ in_flight' = in_flight (+)
                  SetToBag({Task(item_index, site_plan[next_task], "waiting")})
    /\ next_task' = next_task + 1
    /\ UNCHANGED <<mode, items, site_plan, epc, item_index, matches, pending,
                   item_results, chan, rx_open, sent, received, collected, panicked,
                   selVars, scrapeVars>>

\* the futures are polled once the queue is full or the iterator exhausted
Polling == InProgress >= BUFFER_UNORDERED \/ next_task > Len(site_plan)

\* the task's permit is dropped: the first waiter, if any, takes it
Release(t) ==
    LET left == in_flight (-) SetToBag({t})
    IN  IF Waiting = {}
        THEN /\ in_flight' = left
             /\ permits' = permits + 1
        ELSE \E w \in Waiting :
                /\ in_flight' = (left (-) SetToBag({w}))
                                   (+) SetToBag({[w EXCEPT !.state = "running"]})
                /\ permits' = permits

Collected(item) == [collected EXCEPT ![item + 1] = @ + 1]

\* a task's scrape_site returns (or panics) while the engine polls
FinishTask(t, o) ==
    /\ epc = "run"
    /\ Polling
    /\ t \in Running
    /\ IF o.panicked
       THEN \* the panic unwinds through the engine: its futures are dropped
            /\ epc' = "aborted"
            /\ panicked' = Some(t)
            /\ in_flight' = EmptyBag
            /\ permits' = SEMAPHORE_PERMITS
            /\ UNCHANGED <<matches, pending, collected>>
       ELSE /\ Release(t)
            /\ UNCHANGED panicked
            /\ IF mode = "collect"
               THEN /\ matches' = Append(matches, Unwrap(o.match))
                    /\ collected' = Collected(t.item)
                    /\ UNCHANGED <<epc, pending>>
               ELSE /\ pending' = Some([item |-> t.item, match |-> Unwrap(o.match)])
                    /\ epc' = "send_match"
                    /\ UNCHANGED <<matches, collected>>
    /\ UNCHANGED <<mode, items, site_plan, item_index, next_task, item_results, chan,
                   rx_open, sent, received, selVars, scrapeVars>>

\* stream: the "match" frame of the result just yielded, then matches.push
SendMatch ==
    /\ epc = "send_match"
    /\ CanSend
    /\ Send(Frame("match", item_index, Some(Unwrap(pending).match), None))
    /\ matches' = Append(matches, Unwrap(pending).match)
    /\ collected' = Collected(Unwrap(pending).item)
    /\ pending' = None
    /\ epc' = "run"
    /\ UNCHANGED <<mode, items, site_plan, item_index, next_task, in_flight, permits,
                   item_results, rx_open, received, panicked, selVars, scrapeVars>>

\* collect: the item's matches are sorted and its ItemResult pushed
CollectItem ==
    /\ mode = "collect"
    /\ epc = "run"
    /\ ItemComplete
    /\ LET sorted == SortMatches(matches)
       IN  item_results' = Append(item_results,
               [query |-> Query, matches |-> sorted, best |-> best_from_matches(sorted)])
    /\ matches' = <<>>
    /\ next_task' = 1
    /\ item_index' = item_index + 1
    /\ epc' = AfterItem(item_index')
    /\ UNCHANGED <<mode, items, site_plan, in_flight, permits, pending, chan, rx_open,
                   sent, received, collected, panicked, selVars, scrapeVars>>

\* stream: the "item_done" frame
SendItemDone ==
    /\ mode = "stream"
    /\ epc = "run"
    /\ ItemComplete
    /\ CanSend
    /\ Send(Frame("item_done", item_index, None, best_from_matches(matches)))
    /\ matches' = <<>>
    /\ next_task' = 1
    /\ item_index' = item_index + 1
    /\ epc' = AfterItem(item_index')
    /\ UNCHANGED <<mode, items, site_plan, in_flight, permits, pending, item_results,
                   rx_open, received, collected, panicked, selVars, scrapeVars>>

\* stream: the "done" frame; the producer task ends
SendDone ==
    /\ epc = "send_done"
    /\ CanSend
    /\ Send(Frame("done", 0, None, None))
    /\ epc' = "finished"
    /\ UNCHANGED <<mode, items, site_plan, item_index, next_task, in_flight, permits,
                   matches, pending, item_results, rx_open, received, collected, panicked,
                   selVars, scrapeVars>>

\* a receiver that hands out the newest frame first
ReceiveNewest ==
    /\ rx_open
    /\ chan # <<>>
    /\ received' = Append(received, chan[Len(chan)])
    /\ chan' = SubSeq(chan, 1, Len(chan) - 1)
    /\ UNCHANGED <<mode, items, site_plan, epc, item_index, next_task, in_flight, permits,
                   matches, pending, item_results, rx_open, sent, collected, panicked,
                   selVars, scrapeVars>>

\* the consumer takes the frame at the head of the channel
Receive ==
    /\ rx_open
    /\ chan # <<>>
    /\ received' = Append(received, Head(chan))
    /\ chan' = Tail(chan)
    /\ UNCHANGED <<mode, items, site_plan, epc, item_index, next_task, in_flight, permits,
                   matches, pending, item_results, rx_open, sent, collected, panicked,
                   selVars, scrapeVars>>

\* the consumer goes away: the receiver is dropped with what the channel holds
Disconnect ==
    /\ rx_open
    /\ rx_open' = FALSE
    /\ chan' = <<>>
    /\ UNCHANGED <<mode, items, site_plan, epc, item_index, next_task, in_flight, permits,
                   matches, pending, item_results, sent, received, collected, panicked,
                   selVars, scrapeVars>>

Next ==
    \/ SendStarted
    \/ StartTask
    \/ \E t \in Running : \E o \in ScrapeOutcomes(t.site, items[t.item + 1]) : FinishTask(t, o)
    \/ SendMatch
    \/ CollectItem
    \/ SendItemDone
    \/ SendDone
    \/ Receive
    \/ Disconnect

Spec == Init /\ [][Next]_vars

(***************************************************************************)
(* SpecFan: a run whose site_plan is longer than the concurrency limit and *)
(* whose scrapes all time out.                                             *)
(***************************************************************************)
FanPlan == [i \in 1..(BUFFER_UNORDERED + FanExtra) |-> "ebay"]

InitFan ==
    /\ \E m \in {"collect", "stream"}, n \in 1..MaxItems :
          EngineStart([mode |-> m, n_items |-> n, plan |-> FanPlan])
    /\ SelIdle
    /\ ScrapeIdle

NextFan ==
    \/ SendStarted
    \/ StartTask
    \/ \E t \in Running : \E o \in TimeoutOutcomes(t.site, items[t.item + 1]) : FinishTask(t, o)
    \/ SendMatch
    \/ CollectItem
    \/ SendItemDone
    \/ SendDone
    \/ Receive
    \/ Disconnect

SpecFan == InitFan /\ [][NextFan]_vars

(***************************************************************************)
(* SpecPressure: a streaming run that enqueues more frames than the        *)
(* channel holds: one item more than MaxItems, the plan of SpecFan, every  *)
(* scrape timing out.                                                      *)
(***************************************************************************)
InitPressure ==
    /\ EngineStart([mode |-> "stream", n_items |-> MaxItems + 1, plan |-> FanPlan])
    /\ SelIdle
    /\ ScrapeIdle

NextPressure ==
    \/ SendStarted
    \/ StartTask
    \/ \E t \in Running : \E o \in TimeoutOutcomes(t.site, items[t.item + 1]) : FinishTask(t, o)
    \/ SendMatch
    \/ SendItemDone
    \/ SendDone
    \/ Receive
    \/ Disconnect

SpecPressure == InitPressure /\ [][NextPressure]_vars

(***************************************************************************)
(* Claims about the engines, checked under Spec (C5: under SpecFan).       *)
(***************************************************************************)
CountSite(s, site) == Cardinality({i \in 1..Len(s) : s[i] = site})

(***************************************************************************)
(* C1: in collect mode, whatever the completion order and the outcomes of  *)
(* the scrapes, every ItemResult has exactly len(site_plan) matches, one   *)
(* per site_plan entry (duplicates included), sorted ascending by site.    *)
(***************************************************************************)
C1_CollectMatchesSorted ==
    mode = "collect" =>
        /\ epc = "finished" => Len(item_results) = Len(items)
        /\ \A k \in 1..Len(item_results) :
              LET ms == item_results[k].matches
                  sites == [i \in 1..Len(ms) |-> ms[i].site]
              IN  /\ Len(ms) = Len(site_plan)
                  /\ \A s \in PlanSites : CountSite(sites, s) = CountSite(site_plan, s)
                  /\ \A i \in 1..(Len(ms) - 1) : SiteRank[sites[i]] <= SiteRank[sites[i + 1]]

\* a plan out of order and with a duplicate, whose scrapes ended differently
C1_Witness ==
    /\ mode = "collect"
    /\ epc = "finished"
    /\ site_plan = <<"ebay", "amazon", "ebay">>
    /\ Len(item_results) = 1
    /\ item_results[1].matches[1].site = "amazon"
    /\ item_results[1].matches[2].status = "error"
    /\ item_results[1].matches[3].status = "ok"

(***************************************************************************)
(* C3: in stream mode the frames are enqueued in this order: "started"     *)
(* before every "match", every "match" of item i before the "item_done"    *)
(* of item i, "done" last; and the channel hands the frames to the         *)
(* consumer in the order they were enqueued.                               *)
(***************************************************************************)
IsPrefix(a, b) == Len(a) <= Len(b) /\ a = SubSeq(b, 1, Len(a))
C3_StreamOrder ==
    /\ \A i \in 1..Len(sent) :
          /\ sent[i].type = "match" => \E j \in 1..(i - 1) : sent[j].type = "started"
          /\ sent[i].type = "done" => i = Len(sent)
          /\ sent[i].type = "item_done" =>
                \A j \in 1..Len(sent) :
                    (sent[j].type = "match" /\ sent[j].item_index = sent[i].item_index)
                        => j < i
    /\ IsPrefix(received, sent)
    /\ rx_open => received \o chan = sent

\* a whole run of two items received, frames having queued up in the channel
C3_Witness ==
    /\ mode = "stream"
    /\ epc = "finished"
    /\ Len(items) = 2 /\ Len(site_plan) = 2
    /\ Len(sent) = 8
    /\ Len(received) = 5 /\ Len(chan) = 3
    /\ sent[8].type = "done"

(***************************************************************************)
(* C4: items are processed one after the other, in both modes: while a     *)
(* task of an item is in flight, every task of every earlier item has      *)
(* completed and its match has been collected (collect mode) or its        *)
(* enqueue has completed (stream mode).                                    *)
(***************************************************************************)
C4_ItemsSequential ==
    \A t \in BagToSet(in_flight) :
        /\ t.item = item_index
        /\ \A j \in 1..t.item : collected[j] = Len(site_plan)

\* tasks of the second item in flight, those of the first all collected
C4_Witness ==
    /\ item_index = 1
    /\ Len(site_plan) = 2
    /\ InProgress = 2
    /\ collected[1] = 2 /\ collected[2] = 0

(***************************************************************************)
(* C5: at every moment of a run, in either mode and for any site_plan      *)
(* length, at most 20 calls of scrape_site are in flight.                  *)
(***************************************************************************)
C5_AtMostTwentyInFlight == RunningCount <= 20

\* twenty scrapes in flight while site_plan entries are still to be started
C5_Witness ==
    /\ RunningCount = 20
    /\ next_task <= Len(site_plan)
    /\ Len(site_plan) > 20

(***************************************************************************)
(* C7: a panic in a fan-out task does not tear the engine down: the task   *)
(* yields a SiteMatch with status "error" and the run goes on.             *)
(***************************************************************************)
C7_PanicContained ==
    IsSome(panicked) =>
        /\ epc # "aborted"
        /\ \E i \in 1..Len(matches) :
              matches[i].site = Unwrap(panicked).site /\ matches[i].status = "error"

(***************************************************************************)
(* C14: once the stream consumer has disconnected, every enqueue of the    *)
(* producer fails silently (nothing enters the channel) and the producer   *)
(* keeps running: it does not panic, and when it ends it has finished      *)
(* every item.                                                             *)
(***************************************************************************)
C14_ProducerSurvivesDisconnect ==
    [][(mode = "stream" /\ ~rx_open /\ epc # "aborted") =>
          /\ epc' # "aborted"
          /\ chan' = <<>> /\ sent' = sent
          /\ epc' = "finished" => item_index' = Len(items)]_vars

\* the match frames enqueued for the item of this index
MatchFramesOf(index) ==
    SelectSeq(sent, LAMBDA f : f.type = "match" /\ f.item_index = index)

\* best is absent when every match is a cache hit, and a best that is
\* present is the site, price and url of a match with status "ok"
BestFromOk(ms, best) ==
    /\ (\A i \in 1..Len(ms) : ms[i].status = "cached") => best = None
    /\ IsSome(best) =>
          \E i \in 1..Len(ms) :
             /\ ms[i].status = "ok"
             /\ ms[i].site = Unwrap(best).site
             /\ ms[i].price = Some(Unwrap(best).price)
             /\ ms[i].url = Some(Unwrap(best).url)

(***************************************************************************)
(* C24: a match served from the cache never becomes the best pick.  In     *)
(* every ItemResult and every item_done frame, best is absent when all     *)
(* the matches of the item have status "cached", though they carry prices  *)
(* and urls, and a best that is present comes from a match with status     *)
(* "ok".                                                                   *)
(***************************************************************************)
C24_CachedNeverBest ==
    /\ \A k \in 1..Len(item_results) :
          BestFromOk(item_results[k].matches, item_results[k].best)
    /\ \A j \in 1..Len(sent) :
          sent[j].type = "item_done" =>
             LET frames == MatchFramesOf(sent[j].item_index)
             IN  BestFromOk([i \in 1..Len(frames) |-> Unwrap(frames[i].match)],
                            sent[j].best)

\* both sites of the plan answered from the cache, with prices and urls:
\* the item has no best
C24_Witness ==
    /\ mode = "collect"
    /\ epc = "finished"
    /\ Len(item_results) = 1
    /\ Len(item_results[1].matches) = 2
    /\ \A i \in 1..2 :
          /\ item_results[1].matches[i].status = "cached"
          /\ IsSome(item_results[1].matches[i].price)
          /\ IsSome(item_results[1].matches[i].url)
    /\ item_results[1].best = None

\* whether a match reports a closed semaphore
SemaphoreClosed(m) == m.message = Some("semaphore_closed")

(***************************************************************************)
(* C25: the semaphore is never contended and never closed, in both modes:  *)
(* no task ever waits for a permit, every task whose scrape runs holds     *)
(* exactly one permit (permits left + scrapes running = 20), all 20        *)
(* permits are back when no task is in flight, and no match carries the    *)
(* message "semaphore_closed".                                             *)
(***************************************************************************)
C25_SemaphoreNeverContended ==
    /\ Waiting = {}
    /\ permits + RunningCount = SEMAPHORE_PERMITS
    /\ in_flight = EmptyBag => permits = SEMAPHORE_PERMITS
    /\ \A i \in 1..Len(matches) : ~SemaphoreClosed(matches[i])
    /\ \A k \in 1..Len(item_results) :
          \A i \in 1..Len(item_results[k].matches) :
             ~SemaphoreClosed(item_results[k].matches[i])
    /\ \A j \in 1..Len(sent) :
          sent[j].type = "match" => ~SemaphoreClosed(Unwrap(sent[j].match))

\* the second item of a run: every permit is taken again and entries of
\* the plan are still to be started
C25_Witness ==
    /\ item_index = 1
    /\ permits = 0
    /\ InProgress = BUFFER_UNORDERED
    /\ next_task <= Len(site_plan)

(***************************************************************************)
(* C26: in stream mode, for k items and a site_plan of n entries the       *)
(* producer enqueues one started, then for each item index i in ascending  *)
(* order n match frames of index i followed by one item_done of index i    *)
(* (with absent best when n = 0), then one done: 2 + k * (n + 1) frames    *)
(* when the producer task has ended and the consumer never went away.      *)
(***************************************************************************)
C26_StreamFrameCounts ==
    (mode = "stream" /\ rx_open /\ epc \in {"finished", "aborted"}) =>
        LET k == Len(items)
            n == Len(site_plan)
        IN  /\ Len(sent) = 2 + k * (n + 1)
            /\ sent[1].type = "started"
            /\ sent[Len(sent)].type = "done"
            /\ \A i \in 0..(k - 1) :
                  LET base == 1 + i * (n + 1)
                  IN  /\ \A j \in 1..n :
                            /\ sent[base + j].type = "match"
                            /\ sent[base + j].item_index = i
                      /\ sent[base + n + 1].type = "item_done"
                      /\ sent[base + n + 1].item_index = i
                      /\ n = 0 => sent[base + n + 1].best = None

\* the producer waits in a send for room in the channel
SendBlocked ==
    /\ rx_open
    /\ Len(chan) = CHANNEL_CAPACITY
    /\ epc \in {"send_started", "send_match", "send_done"}
          \/ (epc = "run" /\ ItemComplete)

(***************************************************************************)
(* C15: stream back-pressure.  The channel never holds more than 64        *)
(* frames; while it is full and the consumer connected, the producer       *)
(* enqueues nothing and stays in its send until the consumer receives;     *)
(* and while the consumer is connected the frames enqueued are exactly     *)
(* the frames received followed by the frames in the channel: none is      *)
(* dropped, none is delivered twice.                                       *)
(***************************************************************************)
C15_BackPressure ==
    [][/\ Len(chan') <= CHANNEL_CAPACITY
       /\ rx_open' => sent' = received' \o chan'
       /\ (SendBlocked /\ rx_open' /\ received' = received) =>
             (SendBlocked' /\ sent' = sent /\ epc' = epc /\ matches' = matches)]_vars

\* the channel is full and the producer waits with the next match frame,
\* the consumer having received frames already
C15_Witness ==
    /\ SendBlocked
    /\ epc = "send_match"
    /\ received # <<>>

====
